---- MODULE Spec2Model ----
(***************************************************************************)
(* Model of generate-stats-card.go: the API client fetchStats, the retry   *)
(* orchestrator fetchStatsWithRetry (backoff.Retry over an                 *)
(* ExponentialBackOff of github.com/cenkalti/backoff/v4), and the data     *)
(* they exchange.                                                          *)
(*                                                                         *)
(* Time is counted in ticks, TicksPerSecond ticks to the second, measured  *)
(* from the call of fetchStatsWithRetry (the backoff's startTime).         *)
(*                                                                         *)
(* backoff.Retry and ExponentialBackOff.NextBackOff are those of the       *)
(* current v4 of the library (v4.1.1 and later): NextBackOff returns Stop  *)
(* when the elapsed time plus the next delay is over MaxElapsedTime.       *)
(***************************************************************************)
EXTENDS Integers, Sequences, FiniteSets, TLC

VARIABLES
    pc,              \* position of fetchStatsWithRetry: "init", "inflight", "waiting", "done"
    now,             \* ticks elapsed since fetchStatsWithRetry was called
    currentInterval, \* ExponentialBackOff.currentInterval, in ticks
    delay,           \* the randomized interval NextBackOff computed last, in ticks
    next,            \* the last value NextBackOff returned: that delay, or Stop
    timerEnd,        \* the instant the backoff timer fires
    stats,           \* the closure variable stats of fetchStatsWithRetry
    err,             \* the variable err of backoff.Retry: the last attempt's error
    ret,             \* what fetchStatsWithRetry returned: [stats, err]
    ctxDone,         \* the cancellation signal ctx has fired
    ctxDoneAtStart,  \* ctx had already fired when the attempt in flight began
    attempts,        \* number of fetchStats invocations begun
    requests,        \* number of client.Do calls of the invocations that returned
    lastExchange,    \* the HTTP exchange of the most recent finished attempt
    exchange,        \* input of the API client taken alone
    fetched,         \* result of fetchStats(exchange), Nil before the call
    card,            \* the StatsCard handed to generateStatsCardSVG
    svg,             \* the document it returned, <<>> before the call
    mpc,             \* position of main
    env,             \* the environment variables of the process
    config,          \* the Config loadConfig returned
    dirState,        \* what the path config.OutputDir is on disk
    fileState,       \* the output file on disk: <<>> if there is none, else <<content>>
    netCalls,        \* calls of fetchStatsWithRetry main has made
    mstats,          \* the StatsCard main got from fetchStatsWithRetry
    fatal,           \* the message of the log.Fatal that ended the run, "" if none
    spc,             \* position of sftp_directory_transfer.sh
    params,          \* its SOURCE_PATH, TARGET_HOST and TARGET_PATH after parsing
    remoteTarget,    \* what TARGET_PATH is on the remote host
    remoteBackup,    \* whether the backup path exists on the remote host
    uploadStarted,   \* whether sftp has been started
    exitStatus,      \* exit status of the script, -1 while it runs
    slog             \* the messages it has logged

retryVars == <<pc, now, currentInterval, delay, next, timerEnd, stats, err, ret, ctxDone,
               ctxDoneAtStart, attempts, requests, lastExchange>>

fetchVars == <<exchange, fetched>>

renderVars == <<card, svg>>

mainVars == <<mpc, env, config, dirState, fileState, netCalls, mstats, fatal>>

sftpVars == <<spc, params, remoteTarget, remoteBackup, uploadStarted, exitStatus, slog>>

VARIABLES
    npc,             \* position of the nested-value lookup: "idle", "call", "loop", "returned"
    nvObject,        \* main's object, the argument of getNestedValue
    nvKey,           \* main's key, a string as its sequence of characters
    obj,             \* getNestedValue's obj, reassigned as the loop descends
    keys,            \* the components of the key the loop has not visited yet
    nvValue          \* what getNestedValue returned

nestedVars == <<npc, nvObject, nvKey, obj, keys, nvValue>>

vars == <<retryVars, fetchVars, renderVars, mainVars, sftpVars, nestedVars>>

\* What each part of the repository leaves alone: the state of the others.
OutsideRetry == <<fetchVars, renderVars, mainVars, sftpVars, nestedVars>>

OutsideFetch == <<retryVars, renderVars, mainVars, sftpVars, nestedVars>>

OutsideRender == <<retryVars, fetchVars, mainVars, sftpVars, nestedVars>>

OutsideMain == <<retryVars, fetchVars, renderVars, sftpVars, nestedVars>>

OutsideSftp == <<retryVars, fetchVars, renderVars, mainVars, nestedVars>>

OutsideNested == <<retryVars, fetchVars, renderVars, mainVars, sftpVars>>

(***************************************************************************)
(* Values                                                                  *)
(***************************************************************************)

\* Go's nil (a nil *StatsCard, a nil error).
Nil == [kind |-> "nil"]

\* Resolution of the clock.
TicksPerSecond == 4

\* Longest list of repository nodes in a payload.
MaxNodes == 2

\* Longest list of values one response header carries.
MaxHeaderValues == 2

\* Deepest nesting of the objects getNestedValue is called on.
MaxDepth == 2

\* Longest key getNestedValue is called with, in characters.
MaxKeyLen == 3

\* rand.Float64() is drawn from {0/RandSteps, ..., (RandSteps-1)/RandSteps}.
RandSteps == 3

http_StatusOK == 200

\* Status codes of the responses: 200, another 2xx, and non-2xx ones.
StatusCodes == {http_StatusOK, 204, 401, 500}

\* Values of the X-RateLimit-Remaining header.
RemainingValues == {"0", "4999"}

\* Values of the X-RateLimit-Reset header.
ResetValues == {"1699999999", "soon"}

\* Values of the integer fields of a payload (those of TestFetchStats among them).
StarValues == {0, 5, 10}

SeqsUpTo(S, n) == UNION {[1..k -> S] : k \in 0..n}

\* The list of values a response holds for one header name.
HeaderLists(S) == SeqsUpTo(S, MaxHeaderValues)

\* The top-level "errors" list of a body: absent (or empty), or one message.
ErrorLists == {<<>>, <<[Message |-> "API rate limit exceeded", Type |-> "RATE_LIMITED"]>>}

\* The data.user record of a body, when it is there.
Users ==
    {[commits |-> c[1], issues |-> c[2], prs |-> c[3], calendar |-> c[4],
      contributedTo |-> c[5], nodes |-> n] :
        c \in {<<100, 20, 30, 200, 15>>, <<0, 0, 0, 0, 0>>},
        n \in SeqsUpTo(StarValues, MaxNodes)}

NullUser ==
    [commits |-> 0, issues |-> 0, prs |-> 0, calendar |-> 0, contributedTo |-> 0,
     nodes |-> <<>>]

\* Response bodies: text that is not JSON of the expected shape (json FALSE), or
\* a JSON document with its optional parts.
NoBody == [json |-> FALSE, hasUser |-> FALSE, user |-> NullUser, errors |-> <<>>]

Bodies ==
    {NoBody}
    \cup {[json |-> TRUE, hasUser |-> FALSE, user |-> NullUser, errors |-> e] :
            e \in ErrorLists}
    \cup {[json |-> TRUE, hasUser |-> TRUE, user |-> u, errors |-> e] :
            u \in Users, e \in ErrorLists}

\* An HTTP exchange as fetchStats sees it: client.Do fails (doErr), or it
\* returns a response (status, headers) whose body read fails (readErr) or
\* yields body.
NoResponse ==
    [doErr |-> TRUE, readErr |-> FALSE, status |-> 0, remaining |-> <<>>,
     reset |-> <<>>, body |-> NoBody]

Unread(status, remaining, reset) ==
    [doErr |-> FALSE, readErr |-> TRUE, status |-> status, remaining |-> remaining,
     reset |-> reset, body |-> NoBody]

Response(status, remaining, reset, body) ==
    [doErr |-> FALSE, readErr |-> FALSE, status |-> status, remaining |-> remaining,
     reset |-> reset, body |-> body]

Exchanges ==
    {NoResponse}
    \cup {Unread(s, rem, rst) :
            s \in StatusCodes, rem \in HeaderLists(RemainingValues),
            rst \in HeaderLists(ResetValues)}
    \cup {Response(s, rem, rst, b) :
            s \in StatusCodes, rem \in HeaderLists(RemainingValues),
            rst \in HeaderLists(ResetValues), b \in Bodies}

(***************************************************************************)
(* fetchStats                                                              *)
(***************************************************************************)

\* http.Header.Get: the first value of the header, "" when it has none.
Header_Get(values) == IF values = <<>> THEN "" ELSE Head(values)

\* Variant: a document whose data or user is null or missing fails to decode.
json_Unmarshal_NullUserRejected(body) ==
    IF ~body.json \/ ~body.hasUser
    THEN [err |-> TRUE, Data |-> NullUser, Errors |-> <<>>]
    ELSE [err |-> FALSE, Data |-> body.user, Errors |-> body.errors]

\* Variant: the error of json.Unmarshal is dropped, the struct left at zero.
json_Unmarshal_ErrIgnored(body) ==
    [err |-> FALSE,
     Data |-> IF body.json /\ body.hasUser THEN body.user ELSE NullUser,
     Errors |-> IF body.json THEN body.errors ELSE <<>>]

\* json.Unmarshal into GitHubResponse: an error for text that does not decode,
\* else the struct, absent or null parts left at their zero values.
json_Unmarshal(body) ==
    IF ~body.json
    THEN [err |-> TRUE, Data |-> NullUser, Errors |-> <<>>]
    ELSE [err |-> FALSE,
          Data |-> IF body.hasUser THEN body.user ELSE NullUser,
          Errors |-> body.errors]

\* Variant: "totalStars = repo.StargazerCount", the last count instead of the sum.
SumStars_LastOnly(nodes) ==
    IF nodes = <<>> THEN 0 ELSE nodes[Len(nodes)]

RECURSIVE SumStars(_)
\* The loop over result.Data.User.Repositories.Nodes.
SumStars(nodes) ==
    IF nodes = <<>> THEN 0 ELSE Head(nodes) + SumStars(Tail(nodes))

\* Variant: the pull-request and issue counters are exchanged.
NewStatsCard_Swapped(user) ==
    [TotalStars |-> SumStars(user.nodes),
     TotalCommits |-> user.commits,
     TotalPRs |-> user.issues,
     TotalIssues |-> user.prs,
     ContributedTo |-> user.contributedTo,
     TotalContributions |-> user.calendar]

\* The StatsCard literal returned on success.
NewStatsCard(user) ==
    [TotalStars |-> SumStars(user.nodes),
     TotalCommits |-> user.commits,
     TotalPRs |-> user.prs,
     TotalIssues |-> user.issues,
     ContributedTo |-> user.contributedTo,
     TotalContributions |-> user.calendar]

\* The errors fetchStats builds, by the text they start with.
ExecuteRequestError == [kind |-> "execute request"]
ReadResponseError == [kind |-> "read response"]

\* Variant: the message leaves the response body out.
StatusCodeError_NoBody(code, body) ==
    [kind |-> "unexpected status code", code |-> code, body |-> Nil]

StatusCodeError(code, body) == [kind |-> "unexpected status code", code |-> code, body |-> body]

\* Variant: the reset time is shown as a date instead of the header's text.
RateLimitError_AsDate(resetTime) ==
    [kind |-> "rate limit exceeded",
     resetTime |-> IF resetTime = "1699999999" THEN "2023-11-14T22:13:19Z" ELSE ""]

RateLimitError(resetTime) == [kind |-> "rate limit exceeded", resetTime |-> resetTime]
UnmarshalError == [kind |-> "unmarshal response"]
GraphQLError(errors) == [kind |-> "GraphQL errors", errors |-> errors]

Result(s, e) == [stats |-> s, err |-> e]

\* Variant: the GraphQL errors are reported only when no data came with them.
fetchStats_PartialData(x) ==
    IF x.doErr THEN Result(Nil, ExecuteRequestError)
    ELSE IF x.readErr THEN Result(Nil, ReadResponseError)
    ELSE IF x.status # http_StatusOK THEN Result(Nil, StatusCodeError(x.status, x.body))
    ELSE IF Header_Get(x.remaining) = "0"
         THEN Result(Nil, RateLimitError(Header_Get(x.reset)))
    ELSE LET result == json_Unmarshal(x.body) IN
         IF result.err THEN Result(Nil, UnmarshalError)
         ELSE IF Len(result.Errors) > 0 /\ ~x.body.hasUser
              THEN Result(Nil, GraphQLError(result.Errors))
         ELSE Result(NewStatsCard(result.Data), Nil)

\* Variant: the rate-limit header is looked at before the status.
fetchStats_RateLimitFirst(x) ==
    IF x.doErr THEN Result(Nil, ExecuteRequestError)
    ELSE IF x.readErr THEN Result(Nil, ReadResponseError)
    ELSE IF Header_Get(x.remaining) = "0"
         THEN Result(Nil, RateLimitError(Header_Get(x.reset)))
    ELSE IF x.status # http_StatusOK THEN Result(Nil, StatusCodeError(x.status, x.body))
    ELSE LET result == json_Unmarshal(x.body) IN
         IF result.err THEN Result(Nil, UnmarshalError)
         ELSE IF Len(result.Errors) > 0 THEN Result(Nil, GraphQLError(result.Errors))
         ELSE Result(NewStatsCard(result.Data), Nil)

\* Variant: a response without a user record is refused as an error.
fetchStats_NullDataRejected(x) ==
    IF x.doErr THEN Result(Nil, ExecuteRequestError)
    ELSE IF x.readErr THEN Result(Nil, ReadResponseError)
    ELSE IF x.status # http_StatusOK THEN Result(Nil, StatusCodeError(x.status, x.body))
    ELSE IF Header_Get(x.remaining) = "0"
         THEN Result(Nil, RateLimitError(Header_Get(x.reset)))
    ELSE LET result == json_Unmarshal(x.body) IN
         IF result.err THEN Result(Nil, UnmarshalError)
         ELSE IF Len(result.Errors) > 0 THEN Result(Nil, GraphQLError(result.Errors))
         ELSE IF ~x.body.hasUser THEN Result(Nil, UnmarshalError)
         ELSE Result(NewStatsCard(result.Data), Nil)

\* fetchStats from client.Do on: the checks in the order of the code.
fetchStats(x) ==
    IF x.doErr THEN Result(Nil, ExecuteRequestError)
    ELSE IF x.readErr THEN Result(Nil, ReadResponseError)
    ELSE IF x.status # http_StatusOK THEN Result(Nil, StatusCodeError(x.status, x.body))
    ELSE IF Header_Get(x.remaining) = "0"
         THEN Result(Nil, RateLimitError(Header_Get(x.reset)))
    ELSE LET result == json_Unmarshal(x.body) IN
         IF result.err THEN Result(Nil, UnmarshalError)
         ELSE IF Len(result.Errors) > 0 THEN Result(Nil, GraphQLError(result.Errors))
         ELSE Result(NewStatsCard(result.Data), Nil)

(***************************************************************************)
(* backoff.ExponentialBackOff, as fetchStatsWithRetry configures it        *)
(***************************************************************************)

\* http.Client{Timeout: 30 * time.Second}
ClientTimeout == 30 * TicksPerSecond

\* exponentialBackoff.MaxElapsedTime = 2 * time.Minute
MaxElapsedTime == 2 * 60 * TicksPerSecond

\* The defaults NewExponentialBackOff sets: InitialInterval 500 ms,
\* RandomizationFactor 0.5, Multiplier 1.5, MaxInterval 60 s.
InitialInterval == TicksPerSecond \div 2
MaxInterval == 60 * TicksPerSecond
RandomizationFactor(d) == d \div 2
Multiplier(d) == (3 * d) \div 2

\* backoff.Stop
Stop == -1

\* Variant: the delay is drawn from the whole of [0, 2 * cur].
getRandomValueFromInterval_FullJitter(r, cur) == (r * (2 * cur + 1)) \div RandSteps

\* getRandomValueFromInterval: a value of [cur - delta, cur + delta], random
\* being r / RandSteps.
getRandomValueFromInterval(r, cur) ==
    LET delta == RandomizationFactor(cur)
        minInterval == cur - delta
        maxInterval == cur + delta
    IN  minInterval + (r * (maxInterval - minInterval + 1)) \div RandSteps

\* incrementCurrentInterval: multiply, capped at MaxInterval.
incrementCurrentInterval(cur) ==
    IF Multiplier(cur) >= MaxInterval THEN MaxInterval ELSE Multiplier(cur)

\* Variant: the check of the library before v4.1.1, the delay left out.
BudgetExceeded_ElapsedOnly(elapsed, d) == elapsed > MaxElapsedTime

\* The test NextBackOff makes of the budget.
BudgetExceeded(elapsed, d) == elapsed + d > MaxElapsedTime

\* NextBackOff: the randomized delay, Stop when it would end after the budget.
NextBackOff(cur, elapsed, r) ==
    LET d == getRandomValueFromInterval(r, cur) IN
    [delay |-> d,
     next |-> IF BudgetExceeded(elapsed, d) THEN Stop ELSE d,
     currentInterval |-> incrementCurrentInterval(cur)]

(***************************************************************************)
(* fetchStatsWithRetry                                                     *)
(***************************************************************************)

\* Variant: backoff.WithMaxRetries(exponentialBackoff, 3) handed to Retry.
RetryBackOff_MaxRetries(cur, elapsed, r, tries) ==
    IF tries > 3
    THEN [delay |-> 0, next |-> Stop, currentInterval |-> cur]
    ELSE NextBackOff(cur, elapsed, r)

\* NextBackOff of the BackOff handed to backoff.Retry: exponentialBackoff
\* itself, which counts no retries.
RetryBackOff(cur, elapsed, r, tries) == NextBackOff(cur, elapsed, r)

\* Variant: "stats, err := fetchStats(...)" shadows the captured stats.
operation_Shadowed(prevStats, res) == Result(prevStats, res.err)

\* The closure operation: it assigns the captured stats and returns the error.
operation(prevStats, res) == Result(res.stats, res.err)

\* Variant: operation wraps authorization failures by backoff.Permanent.
IsPermanent_Auth(e) == e.kind = "unexpected status code" /\ e.code = 401

\* errors.As(err, &permanent) in backoff.Retry: operation returns its errors
\* bare, none wrapped by backoff.Permanent.
IsPermanent(e) == FALSE

\* fmt.Errorf("failed after retries: %w", err)
FailedAfterRetries(e) == [kind |-> "failed after retries", cause |-> e]

\* Variant: the error of backoff.Retry is dropped, stats is returned as it is.
fetchStatsWithRetry_return_ErrDropped(s, e) == Result(s, Nil)

\* Variant: the terminal error is built without the cause.
fetchStatsWithRetry_return_NoCause(s, e) ==
    IF e # Nil THEN Result(Nil, FailedAfterRetries(Nil)) ELSE Result(s, Nil)

\* What fetchStatsWithRetry returns once backoff.Retry has returned e.
fetchStatsWithRetry_return(s, e) ==
    IF e # Nil THEN Result(Nil, FailedAfterRetries(e)) ELSE Result(s, Nil)

\* Variant: the client has no timeout, an attempt can hang past the budget.
AttemptDurations_NoTimeout == {0, ClientTimeout, MaxElapsedTime + ClientTimeout}

\* How long an attempt can take: no time, just under the client's timeout, and
\* the timeout itself.
AttemptDurations == {0, ClientTimeout - 1, ClientTimeout}

\* The payload of TestFetchStats.
TestUser ==
    [commits |-> 100, issues |-> 20, prs |-> 30, calendar |-> 200,
     contributedTo |-> 15, nodes |-> <<10, 5>>]

JSONBody(hasUser, user, errors) ==
    [json |-> TRUE, hasUser |-> hasUser, user |-> user, errors |-> errors]

\* The exchanges the attempts of a run are drawn from: one of each failure (the
\* GraphQL failure without and with data), a success with the payload of
\* TestFetchStats and one without data.
SampleExchanges ==
    {NoResponse,
     Unread(http_StatusOK, <<>>, <<"1699999999">>),
     Response(401, <<>>, <<"1699999999">>, JSONBody(FALSE, NullUser, <<>>)),
     Response(http_StatusOK, <<"0">>, <<"1699999999">>, JSONBody(FALSE, NullUser, <<>>)),
     Response(http_StatusOK, <<>>, <<"1699999999">>, NoBody),
     Response(http_StatusOK, <<>>, <<"1699999999">>,
              JSONBody(FALSE, NullUser,
                       <<[Message |-> "API rate limit exceeded", Type |-> "RATE_LIMITED"]>>)),
     Response(http_StatusOK, <<>>, <<"1699999999">>,
              JSONBody(TRUE, TestUser,
                       <<[Message |-> "API rate limit exceeded", Type |-> "RATE_LIMITED"]>>)),
     Response(http_StatusOK, <<>>, <<"1699999999">>, JSONBody(FALSE, NullUser, <<>>)),
     Response(http_StatusOK, <<>>, <<"1699999999">>, JSONBody(TRUE, TestUser, <<>>))}

\* Variant: fetchStats calls client.Do a second time when the first call fails.
DoCalls_AgainOnError(x) == IF x.doErr THEN 2 ELSE 1

\* The calls of client.Do one invocation of fetchStats makes: the one of line
\* 201, on every path (json.Marshal and http.NewRequestWithContext do not fail
\* on a map of strings and a constant URL).
DoCalls(x) == 1

\* An attempt cut short by the client's timeout or by ctx ends in an error of
\* client.Do or of io.ReadAll.
Failed(x) == x.doErr \/ x.readErr

\* fetchStatsWithRetry has not been called.
RetryIdle ==
    /\ pc = "init"
    /\ now = 0
    /\ currentInterval = InitialInterval
    /\ delay = 0
    /\ next = 0
    /\ timerEnd = 0
    /\ stats = Nil
    /\ err = Nil
    /\ ret = Nil
    /\ ctxDone = FALSE
    /\ ctxDoneAtStart = FALSE
    /\ attempts = 0
    /\ requests = 0
    /\ lastExchange = NoResponse

\* The parts of the program a specification leaves out stay as they begin.
FetchIdle == exchange = NoResponse /\ fetched = Nil

RenderIdle == card = Nil /\ svg = <<>>

MainIdle ==
    /\ mpc = "idle"
    /\ env = Nil
    /\ config = Nil
    /\ dirState = "absent"
    /\ fileState = <<>>
    /\ netCalls = 0
    /\ mstats = Nil
    /\ fatal = ""

SftpIdle ==
    /\ spc = "idle"
    /\ params = Nil
    /\ remoteTarget = "absent"
    /\ remoteBackup = FALSE
    /\ uploadStarted = FALSE
    /\ exitStatus = -1
    /\ slog = <<>>

\* No lookup of a nested value has been called.
NestedIdle ==
    /\ npc = "idle"
    /\ nvObject = Nil
    /\ nvKey = <<>>
    /\ obj = Nil
    /\ keys = <<>>
    /\ nvValue = Nil

Init == RetryIdle /\ FetchIdle /\ RenderIdle /\ MainIdle /\ SftpIdle /\ NestedIdle

\* The caller cancels ctx.
Cancel ==
    /\ pc # "done"
    /\ ~ctxDone
    /\ ctxDone' = TRUE
    /\ UNCHANGED <<pc, now, currentInterval, delay, next, timerEnd, stats, err, ret,
                   ctxDoneAtStart, attempts, requests, lastExchange>>
    /\ UNCHANGED OutsideRetry

\* backoff.Retry is entered: b.Reset(), then the first call of operation.
Retry ==
    /\ pc = "init"
    /\ pc' = "inflight"
    /\ currentInterval' = InitialInterval
    /\ attempts' = attempts + 1
    /\ ctxDoneAtStart' = ctxDone
    /\ UNCHANGED <<now, delay, next, timerEnd, stats, err, ret, ctxDone, requests,
                   lastExchange>>
    /\ UNCHANGED OutsideRetry

\* operation returns after d ticks with the outcome of exchange x; backoff.Retry
\* returns on success, on a permanent error and on Stop, else starts the timer.
OperationReturns ==
    /\ pc = "inflight"
    /\ \E x \in SampleExchanges, d \in AttemptDurations, r \in 0..(RandSteps - 1) :
        /\ d = ClientTimeout => Failed(x)
        /\ ctxDone => Failed(x)
        /\ ctxDoneAtStart => d = 0
        /\ LET op == operation(stats, fetchStats(x))
               nb == RetryBackOff(currentInterval, now + d, r, attempts)
           IN  /\ now' = now + d
               /\ lastExchange' = x
               /\ requests' = requests + DoCalls(x)
               /\ stats' = op.stats
               /\ err' = op.err
               /\ IF op.err = Nil
                  THEN /\ pc' = "done"
                       /\ ret' = fetchStatsWithRetry_return(op.stats, Nil)
                       /\ UNCHANGED <<currentInterval, delay, next, timerEnd>>
                  ELSE IF IsPermanent(op.err)
                  THEN /\ pc' = "done"
                       /\ ret' = fetchStatsWithRetry_return(op.stats, op.err)
                       /\ UNCHANGED <<currentInterval, delay, next, timerEnd>>
                  ELSE /\ currentInterval' = nb.currentInterval
                       /\ delay' = nb.delay
                       /\ next' = nb.next
                       /\ IF nb.next = Stop
                          THEN /\ pc' = "done"
                               /\ ret' = fetchStatsWithRetry_return(op.stats, op.err)
                               /\ UNCHANGED timerEnd
                          ELSE /\ pc' = "waiting"
                               /\ timerEnd' = now + d + nb.next
                               /\ UNCHANGED ret
    /\ UNCHANGED <<ctxDone, ctxDoneAtStart, attempts>>
    /\ UNCHANGED OutsideRetry

\* Variant: the next attempt is started without waiting for the one in flight.
TimerFires_Overlapping ==
    /\ pc \in {"waiting", "inflight"}
    /\ now' = IF pc = "waiting" THEN timerEnd ELSE now
    /\ pc' = "inflight"
    /\ attempts' = attempts + 1
    /\ ctxDoneAtStart' = ctxDone
    /\ UNCHANGED <<currentInterval, delay, next, timerEnd, stats, err, ret, ctxDone,
                   requests, lastExchange>>
    /\ UNCHANGED OutsideRetry

\* The timer of backoff.Retry fires (its select waits on context.Background(),
\* the BackOff carrying no context) and the loop calls operation again.
TimerFires ==
    /\ pc = "waiting"
    /\ now' = timerEnd
    /\ pc' = "inflight"
    /\ attempts' = attempts + 1
    /\ ctxDoneAtStart' = ctxDone
    /\ UNCHANGED <<currentInterval, delay, next, timerEnd, stats, err, ret, ctxDone,
                   requests, lastExchange>>
    /\ UNCHANGED OutsideRetry

Next == Cancel \/ Retry \/ OperationReturns \/ TimerFires

Spec == Init /\ [][Next]_vars

\* The run goes on while it has a step to take: backoff.Retry is entered,
\* http.Client's timeout ends every attempt, and the timer of a backoff wait
\* fires. The caller can cancel once at most, so this obliges nobody to cancel.
SpecLive == Spec /\ WF_vars(Next)

(***************************************************************************)
(* The API client taken alone: one call of fetchStats on any exchange      *)
(***************************************************************************)

InitFetch ==
    /\ RetryIdle
    /\ RenderIdle
    /\ MainIdle
    /\ SftpIdle
    /\ NestedIdle
    /\ exchange \in Exchanges
    /\ fetched = Nil

CallFetchStats ==
    /\ fetched = Nil
    /\ fetched' = fetchStats(exchange)
    /\ UNCHANGED exchange
    /\ UNCHANGED OutsideFetch

NextFetch == CallFetchStats

SpecFetch == InitFetch /\ [][NextFetch]_vars

(***************************************************************************)
(* generateStatsCardSVG: fmt.Sprintf over the SVG template                 *)
(***************************************************************************)

\* The pieces of the document. A tag carries its attributes in the order of
\* the text; character data and attribute values are runs of chunks.
Attr(name, value) == [name |-> name, value |-> value]

STag(name, attrs) == [k |-> "stag", name |-> name, attrs |-> attrs, chunks |-> <<>>]

Empty(name, attrs) == [k |-> "empty", name |-> name, attrs |-> attrs, chunks |-> <<>>]

ETag(name) == [k |-> "etag", name |-> name, attrs |-> <<>>, chunks |-> <<>>]

Chars(chunks) == [k |-> "chars", name |-> "", attrs |-> <<>>, chunks |-> chunks]

Comment(s) == [k |-> "comment", name |-> "", attrs |-> <<>>, chunks |-> <<s>>]

\* A run of line breaks and blanks between two tags.
Space == [k |-> "space", name |-> "", attrs |-> <<>>, chunks |-> <<>>]

\* The format string of line 248 up to the card background of line 269, as the
\* tags, character data and white space it is made of. A chunk "%d" or "%%" is a
\* verb of the format.
TemplateHead ==
    <<
      STag("svg", <<Attr("width", <<"600">>),
            Attr("height", <<"150">>),
            Attr("viewBox", <<"0 0 600 150">>),
            Attr("fill", <<"none">>),
            Attr("xmlns", <<"http://www.w3.org/2000/svg">>),
            Attr("role", <<"img">>),
            Attr("aria-labelledby", <<"descId">>)>>),
      Space,
      STag("title", <<Attr("id", <<"titleId">>)>>),
      Chars(<<"GitHub Stats Card">>),
      ETag("title"),
      Space,
      STag("desc", <<Attr("id", <<"descId">>)>>),
      Chars(<<"GitHub statistics for user contributions">>),
      ETag("desc"),
      Space,
      STag("style", <<>>),
      Space,
      Chars(<<".header { font: 600 18px 'Segoe UI', Ubuntu, Sans-Serif; fill: #2f80ed; }",
            ".stat { font: 600 14px 'Segoe UI', Ubuntu, Sans-Serif; fill: #434d58; }",
            ".statlabel { font: 400 12px 'Segoe UI', Ubuntu, Sans-Serif; fill: #586069; }",
            ".icon { fill: #586069; }",
            ".card-bg { fill: #fffefe; }",
            ".card-border { stroke: #e4e2e2; }",
            "@media (prefers-color-scheme: dark) {",
            ".stat { fill: #e1e4e8; }",
            ".statlabel { fill: #8b949e; }",
            ".icon { fill: #8b949e; }",
            ".card-bg { fill: #0d1117; }",
            ".card-border { stroke: #30363d; }",
            "}">>),
      Space,
      ETag("style"),
      Space,
      Empty("rect", <<Attr("class", <<"card-bg">>),
            Attr("x", <<"0.5">>),
            Attr("y", <<"0.5">>),
            Attr("rx", <<"4.5">>),
            Attr("height", <<"99",
            "%%">>),
            Attr("width", <<"599">>),
            Attr("class", <<"card-border">>),
            Attr("stroke-width", <<"1">>),
            Attr("stroke-opacity", <<"1">>)>>),
      Space
    >>

\* The group of lines 271-325 holding the six statistics.
TemplateStats ==
    <<
      STag("g", <<Attr("transform", <<"translate(25, 30)">>)>>),
      Space,
      Comment("Total Stars"),
      Space,
      STag("g", <<Attr("transform", <<"translate(0, 0)">>)>>),
      Space,
      STag("svg", <<Attr("y", <<"-2">>),
            Attr("viewBox", <<"0 0 16 16">>),
            Attr("version", <<"1.1">>),
            Attr("width", <<"16">>),
            Attr("height", <<"16">>)>>),
      Space,
      Empty("path", <<Attr("fill", <<"#FFD700">>),
            Attr("fill-rule", <<"evenodd">>),
            Attr("d", <<"M8 .25a.75.75 0 01.673.418l1.882 3.815 4.21.612a.75.75 0 01.416 1.279l-3.046 2.97.719 4.192a.75.75 0 01-1.088.791L8 12.347l-3.766 1.98a.75.75 0 01-1.088-.79l.72-4.194L.818 6.374a.75.75 0 01.416-1.28l4.21-.611L7.327.668A.75.75 0 018 .25z">>)>>),
      Space,
      ETag("svg"),
      Space,
      STag("text", <<Attr("class", <<"stat">>), Attr("x", <<"25">>), Attr("y", <<"12.5">>)>>),
      Chars(<<"Total Stars:">>),
      ETag("text"),
      Space,
      STag("text", <<Attr("class", <<"stat">>),
            Attr("x", <<"135">>),
            Attr("y", <<"12.5">>),
            Attr("font-weight", <<"bold">>)>>),
      Chars(<<"%d">>),
      ETag("text"),
      Space,
      ETag("g"),
      Space,
      Comment("Total Commits"),
      Space,
      STag("g", <<Attr("transform", <<"translate(0, 35)">>)>>),
      Space,
      STag("svg", <<Attr("y", <<"-2">>),
            Attr("viewBox", <<"0 0 16 16">>),
            Attr("version", <<"1.1">>),
            Attr("width", <<"16">>),
            Attr("height", <<"16">>)>>),
      Space,
      Empty("path", <<Attr("class", <<"icon">>),
            Attr("fill-rule", <<"evenodd">>),
            Attr("d", <<"M1.643 3.143L.427 1.927A.25.25 0 000 2.104V5.75c0 .138.112.25.25.25h3.646a.25.25 0 00.177-.427L2.715 4.215a6.5 6.5 0 11-1.18 4.458.75.75 0 10-1.493.154 8.001 8.001 0 101.6-5.684zM7.75 4a.75.75 0 01.75.75v2.992l2.028.812a.75.75 0 01-.557 1.392l-2.5-1A.75.75 0 017 8.25v-3.5A.75.75 0 017.75 4z">>)>>),
      Space,
      ETag("svg"),
      Space,
      STag("text", <<Attr("class", <<"stat">>), Attr("x", <<"25">>), Attr("y", <<"12.5">>)>>),
      Chars(<<"Total Commits (2025):">>),
      ETag("text"),
      Space,
      STag("text", <<Attr("class", <<"stat">>),
            Attr("x", <<"205">>),
            Attr("y", <<"12.5">>),
            Attr("font-weight", <<"bold">>)>>),
      Chars(<<"%d">>),
      ETag("text"),
      Space,
      ETag("g"),
      Space,
      Comment("Total PRs"),
      Space,
      STag("g", <<Attr("transform", <<"translate(0, 70)">>)>>),
      Space,
      STag("svg", <<Attr("y", <<"-2">>),
            Attr("viewBox", <<"0 0 16 16">>),
            Attr("version", <<"1.1">>),
            Attr("width", <<"16">>),
            Attr("height", <<"16">>)>>),
      Space,
      Empty("path", <<Attr("class", <<"icon">>),
            Attr("fill-rule", <<"evenodd">>),
            Attr("d", <<"M7.177 3.073L9.573.677A.25.25 0 0110 .854v4.792a.25.25 0 01-.427.177L7.177 3.427a.25.25 0 010-.354zM3.75 2.5a.75.75 0 100 1.5.75.75 0 000-1.5zm-2.25.75a2.25 2.25 0 113 2.122v5.256a2.251 2.251 0 11-1.5 0V5.372A2.25 2.25 0 011.5 3.25zM11 2.5h-1V4h1a1 1 0 011 1v5.628a2.251 2.251 0 101.5 0V5A2.5 2.5 0 0011 2.5zm1 10.25a.75.75 0 111.5 0 .75.75 0 01-1.5 0zM3.75 12a.75.75 0 100 1.5.75.75 0 000-1.5z">>)>>),
      Space,
      ETag("svg"),
      Space,
      STag("text", <<Attr("class", <<"stat">>), Attr("x", <<"25">>), Attr("y", <<"12.5">>)>>),
      Chars(<<"Total PRs:">>),
      ETag("text"),
      Space,
      STag("text", <<Attr("class", <<"stat">>),
            Attr("x", <<"110">>),
            Attr("y", <<"12.5">>),
            Attr("font-weight", <<"bold">>)>>),
      Chars(<<"%d">>),
      ETag("text"),
      Space,
      ETag("g"),
      Space,
      Comment("Total Issues"),
      Space,
      STag("g", <<Attr("transform", <<"translate(300, 0)">>)>>),
      Space,
      STag("svg", <<Attr("y", <<"-2">>),
            Attr("viewBox", <<"0 0 16 16">>),
            Attr("version", <<"1.1">>),
            Attr("width", <<"16">>),
            Attr("height", <<"16">>)>>),
      Space,
      Empty("path", <<Attr("class", <<"icon">>),
            Attr("fill-rule", <<"evenodd">>),
            Attr("d", <<"M8 1.5a6.5 6.5 0 100 13 6.5 6.5 0 000-13zM0 8a8 8 0 1116 0A8 8 0 010 8zm9 3a1 1 0 11-2 0 1 1 0 012 0zm-.25-6.25a.75.75 0 00-1.5 0v3.5a.75.75 0 001.5 0v-3.5z">>)>>),
      Space,
      ETag("svg"),
      Space,
      STag("text", <<Attr("class", <<"stat">>), Attr("x", <<"25">>), Attr("y", <<"12.5">>)>>),
      Chars(<<"Total Issues:">>),
      ETag("text"),
      Space,
      STag("text", <<Attr("class", <<"stat">>),
            Attr("x", <<"125">>),
            Attr("y", <<"12.5">>),
            Attr("font-weight", <<"bold">>)>>),
      Chars(<<"%d">>),
      ETag("text"),
      Space,
      ETag("g"),
      Space,
      Comment("Contributed To"),
      Space,
      STag("g", <<Attr("transform", <<"translate(300, 35)">>)>>),
      Space,
      STag("svg", <<Attr("y", <<"-2">>),
            Attr("viewBox", <<"0 0 16 16">>),
            Attr("version", <<"1.1">>),
            Attr("width", <<"16">>),
            Attr("height", <<"16">>)>>),
      Space,
      Empty("path", <<Attr("class", <<"icon">>),
            Attr("fill-rule", <<"evenodd">>),
            Attr("d", <<"M2 2.5A2.5 2.5 0 014.5 0h8.75a.75.75 0 01.75.75v12.5a.75.75 0 01-.75.75h-2.5a.75.75 0 110-1.5h1.75v-2h-8a1 1 0 00-.714 1.7.75.75 0 01-1.072 1.05A2.495 2.495 0 012 11.5v-9zm10.5-1V9h-8c-.356 0-.694.074-1 .208V2.5a1 1 0 011-1h8zM5 12.25v3.25a.25.25 0 00.4.2l1.45-1.087a.25.25 0 01.3 0L8.6 15.7a.25.25 0 00.4-.2v-3.25a.25.25 0 00-.25-.25h-3.5a.25.25 0 00-.25.25z">>)>>),
      Space,
      ETag("svg"),
      Space,
      STag("text", <<Attr("class", <<"stat">>), Attr("x", <<"25">>), Attr("y", <<"12.5">>)>>),
      Chars(<<"Contributed to:">>),
      ETag("text"),
      Space,
      STag("text", <<Attr("class", <<"stat">>),
            Attr("x", <<"150">>),
            Attr("y", <<"12.5">>),
            Attr("font-weight", <<"bold">>)>>),
      Chars(<<"%d">>),
      ETag("text"),
      Space,
      ETag("g"),
      Space,
      Comment("Total Contributions"),
      Space,
      STag("g", <<Attr("transform", <<"translate(300, 70)">>)>>),
      Space,
      STag("svg", <<Attr("y", <<"-2">>),
            Attr("viewBox", <<"0 0 16 16">>),
            Attr("version", <<"1.1">>),
            Attr("width", <<"16">>),
            Attr("height", <<"16">>)>>),
      Space,
      Empty("path", <<Attr("class", <<"icon">>),
            Attr("fill-rule", <<"evenodd">>),
            Attr("d", <<"M1.75 0A1.75 1.75 0 000 1.75v12.5C0 15.216.784 16 1.75 16h12.5A1.75 1.75 0 0016 14.25V1.75A1.75 1.75 0 0014.25 0H1.75zM1.5 1.75a.25.25 0 01.25-.25h12.5a.25.25 0 01.25.25v12.5a.25.25 0 01-.25.25H1.75a.25.25 0 01-.25-.25V1.75zM11.75 3a.75.75 0 00-.75.75v7.5a.75.75 0 001.5 0v-7.5a.75.75 0 00-.75-.75zm-8.25.75a.75.75 0 011.5 0v5.5a.75.75 0 01-1.5 0v-5.5zM8 3a.75.75 0 00-.75.75v3.5a.75.75 0 001.5 0v-3.5A.75.75 0 008 3z">>)>>),
      Space,
      ETag("svg"),
      Space,
      STag("text", <<Attr("class", <<"stat">>), Attr("x", <<"25">>), Attr("y", <<"12.5">>)>>),
      Chars(<<"Contributions (2025):">>),
      ETag("text"),
      Space,
      STag("text", <<Attr("class", <<"stat">>),
            Attr("x", <<"185">>),
            Attr("y", <<"12.5">>),
            Attr("font-weight", <<"bold">>)>>),
      Chars(<<"%d">>),
      ETag("text"),
      Space,
      ETag("g"),
      Space,
      ETag("g")
    >>

\* The end of the format string, line 326.
TemplateTail ==
    <<
      Space,
      ETag("svg")
    >>

\* Variant: the template is the statistics group alone, for embedding.
Template_Fragment == TemplateStats

\* The whole format string, lines 248-326.
Template == TemplateHead \o TemplateStats \o TemplateTail

\* The decimal digits %d writes, one chunk a character.
DigitChars == <<"0", "1", "2", "3", "4", "5", "6", "7", "8", "9">>

RECURSIVE fmtUnsigned(_)
fmtUnsigned(u) ==
    IF u < 10 THEN <<DigitChars[u + 1]>>
    ELSE Append(fmtUnsigned(u \div 10), DigitChars[(u % 10) + 1])

\* %d of an int: a minus sign for a negative value, then the digits.
fmtInteger(v) == IF v < 0 THEN <<"-">> \o fmtUnsigned(-v) ELSE fmtUnsigned(v)

\* fmt's scan of the format, over one run of chunks: "%%" writes a percent
\* sign, "%d" writes the next operand or the missing-operand notice, anything
\* else is copied. Returns what was written and the next operand's index.
RECURSIVE printChunks(_, _, _)
printChunks(chunks, a, argNum) ==
    IF chunks = <<>> THEN [out |-> <<>>, argNum |-> argNum]
    ELSE LET c == Head(chunks)
             piece == IF c = "%%" THEN <<"%">>
                      ELSE IF c = "%d"
                           THEN IF argNum > Len(a) THEN <<"%!d(MISSING)">>
                                ELSE fmtInteger(a[argNum])
                      ELSE <<c>>
             used == IF c = "%d" /\ argNum <= Len(a) THEN argNum + 1 ELSE argNum
             rest == printChunks(Tail(chunks), a, used)
         IN [out |-> piece \o rest.out, argNum |-> rest.argNum]

\* The "%d" verbs in a run of chunks.
verbsIn(chunks) == Cardinality({c \in 1..Len(chunks) : chunks[c] = "%d"})

\* The "%d" verbs in the values of the first n attributes of a tag.
verbsInAttrs(attrs, n) ==
    Cardinality(UNION {{j} \X (1..verbsIn(attrs[j].value)) : j \in 1..n})

\* One piece of the format printed, the first operand it may take being
\* a[argNum]: its attribute values in order, then its own chunks.
printPiece(t, a, argNum) ==
    [t EXCEPT
       !.attrs = [j \in 1..Len(t.attrs) |->
                    Attr(t.attrs[j].name,
                         printChunks(t.attrs[j].value, a,
                                     argNum + verbsInAttrs(t.attrs, j - 1)).out)],
       !.chunks = printChunks(t.chunks, a,
                              argNum + verbsInAttrs(t.attrs, Len(t.attrs))).out]

\* fmt's scan of the whole format. It runs from left to right and hands the
\* operands out in the order of the verbs, so a piece starts with as many
\* operands used up as there are "%d" verbs before it.
doPrintf(format, a) ==
    LET verbs == [i \in 1..Len(format) |->
                    verbsInAttrs(format[i].attrs, Len(format[i].attrs))
                        + verbsIn(format[i].chunks)]
        before(n) == Cardinality(UNION {{i} \X (1..verbs[i]) : i \in 1..(n - 1)})
    IN [out |-> [n \in 1..Len(format) |-> printPiece(format[n], a, 1 + before(n))],
        argNum |-> 1 + before(Len(format) + 1)]

\* fmt.Sprintf: the format with its verbs filled from the operands in order;
\* operands left over are reported after the end of the text.
Sprintf(format, a) ==
    LET p == doPrintf(format, a) IN
    IF p.argNum <= Len(a) THEN Append(p.out, Chars(<<"%!(EXTRA ">>)) ELSE p.out

\* Variant: the first two operands change places.
generateStatsCardSVG_Swapped(s) ==
    Sprintf(Template, <<s.TotalCommits, s.TotalStars, s.TotalPRs, s.TotalIssues,
                        s.ContributedTo, s.TotalContributions>>)

generateStatsCardSVG(s) ==
    Sprintf(Template, <<s.TotalStars, s.TotalCommits, s.TotalPRs, s.TotalIssues,
                        s.ContributedTo, s.TotalContributions>>)

\* The values a field of the StatsCard takes here: the zero of an empty
\* account, two values of the repository's test, and a negative one.
CardValues == {0, 42, 1337, -1}

Cards ==
    [TotalStars : CardValues, TotalCommits : CardValues, TotalPRs : CardValues,
     TotalIssues : CardValues, ContributedTo : CardValues,
     TotalContributions : CardValues]

InitRender ==
    /\ RetryIdle
    /\ FetchIdle
    /\ MainIdle
    /\ SftpIdle
    /\ NestedIdle
    /\ card \in Cards
    /\ svg = <<>>

CallGenerateStatsCardSVG ==
    /\ svg = <<>>
    /\ svg' = generateStatsCardSVG(card)
    /\ UNCHANGED card
    /\ UNCHANGED OutsideRender

NextRender == CallGenerateStatsCardSVG

SpecRender == InitRender /\ [][NextRender]_vars

(***************************************************************************)
(* main: loadConfig, fetch, render, ensureOutputDir, os.WriteFile          *)
(***************************************************************************)

defaultUsername == "gangwgr"

defaultOutputDir == "output"

\* The environments of a run. os.Getenv gives "" for a variable that is unset
\* and for one set to nothing.
Environments ==
    [GITHUB_USERNAME : {"", "custom-user"},
     GITHUB_TOKEN : {"", "custom-token"},
     OUTPUT_DIR : {"", "custom-output"},
     OUTPUT_FILE : {"", "card.svg"},
     VERBOSE : {"", "true", "false", "1", "invalid"}]

os_Getenv(e, key) == e[key]

\* Variant: an empty variable is passed on as it is.
getEnv_NoDefault(e, key, defaultValue) == os_Getenv(e, key)

getEnv(e, key, defaultValue) ==
    IF os_Getenv(e, key) # "" THEN os_Getenv(e, key) ELSE defaultValue

\* strconv.ParseBool: the twelve spellings it accepts, an error otherwise.
ParseBool(value) ==
    IF value \in {"1", "t", "T", "TRUE", "true", "True"} THEN [b |-> TRUE, err |-> FALSE]
    ELSE IF value \in {"0", "f", "F", "FALSE", "false", "False"}
         THEN [b |-> FALSE, err |-> FALSE]
    ELSE [b |-> FALSE, err |-> TRUE]

\* Variant: any non-empty value switches the setting on.
getEnvBool_AnySwitchesOn(e, key, defaultValue) ==
    IF os_Getenv(e, key) # "" THEN TRUE ELSE defaultValue

getEnvBool(e, key, defaultValue) ==
    IF os_Getenv(e, key) # "" /\ ~ParseBool(os_Getenv(e, key)).err
    THEN ParseBool(os_Getenv(e, key)).b
    ELSE defaultValue

\* loadConfig: the Config it builds, and the message of its log.Fatal when the
\* token is empty (the process ends there).
loadConfig(e) ==
    LET c == [Username |-> getEnv(e, "GITHUB_USERNAME", defaultUsername),
              Token |-> os_Getenv(e, "GITHUB_TOKEN"),
              OutputDir |-> getEnv(e, "OUTPUT_DIR", defaultOutputDir),
              OutputFile |-> getEnv(e, "OUTPUT_FILE", "stats-card.svg"),
              Verbose |-> getEnvBool(e, "VERBOSE", FALSE)]
    IN [config |-> c,
        fatal |-> IF c.Token = "" THEN "GITHUB_TOKEN environment variable is required"
                  ELSE ""]

\* The document an earlier run left in the output file.
PreviousOutput ==
    generateStatsCardSVG([TotalStars |-> 42, TotalCommits |-> 1337, TotalPRs |-> 42,
                          TotalIssues |-> 0, ContributedTo |-> 0,
                          TotalContributions |-> 1337])

\* The disk before the run: the output directory missing, there (with or
\* without the file of an earlier run), its path taken by a regular file, or
\* its path below a directory the process may not search (os.Stat fails with
\* an error other than "does not exist").
Disks ==
    { [dir |-> "absent", file |-> <<>>],
      [dir |-> "dir", file |-> <<>>],
      [dir |-> "dir", file |-> <<PreviousOutput>>],
      [dir |-> "notdir", file |-> <<>>],
      [dir |-> "noaccess", file |-> <<>>] }

\* How much of the data has reached the file when a write fails: nothing
\* (the file is truncated on opening) or the first half.
PartialWrites(data) == {SubSeq(data, 1, 0), SubSeq(data, 1, Len(data) \div 2)}

InitMain ==
    /\ RetryIdle
    /\ FetchIdle
    /\ RenderIdle
    /\ SftpIdle
    /\ NestedIdle
    /\ mpc = "loadConfig"
    /\ env \in Environments
    /\ config = Nil
    /\ \E d \in Disks : dirState = d.dir /\ fileState = d.file
    /\ netCalls = 0
    /\ mstats = Nil
    /\ fatal = ""

\* Line 69.
MainLoadConfig ==
    /\ mpc = "loadConfig"
    /\ LET l == loadConfig(env) IN
       /\ config' = l.config
       /\ fatal' = l.fatal
       /\ mpc' = IF l.fatal # "" THEN "fatal" ELSE "fetch"
    /\ UNCHANGED <<env, dirState, fileState, netCalls, mstats>>
    /\ UNCHANGED OutsideMain

\* Lines 77-80: fetchStatsWithRetry runs to its end; x is the exchange of its
\* last attempt.
MainFetch ==
    /\ mpc = "fetch"
    /\ \E x \in SampleExchanges :
          LET op == operation(Nil, fetchStats(x))
              r == fetchStatsWithRetry_return(op.stats, op.err)
          IN /\ netCalls' = netCalls + 1
             /\ IF r.err # Nil
                THEN /\ mpc' = "fatal"
                     /\ fatal' = "Failed to fetch stats"
                     /\ UNCHANGED mstats
                ELSE /\ mpc' = "ensureOutputDir"
                     /\ mstats' = r.stats
                     /\ UNCHANGED fatal
    /\ UNCHANGED <<env, config, dirState, fileState>>
    /\ UNCHANGED OutsideMain

\* ensureOutputDir: os.MkdirAll only when os.Stat says the path does not
\* exist; mkdirOK tells whether MkdirAll succeeds.
ensureOutputDir(dir, mkdirOK) ==
    IF dir = "absent"
    THEN IF mkdirOK THEN [dir |-> "dir", err |-> FALSE] ELSE [dir |-> dir, err |-> TRUE]
    ELSE [dir |-> dir, err |-> FALSE]

\* Lines 88-90.
MainEnsureOutputDir ==
    /\ mpc = "ensureOutputDir"
    /\ \E mkdirOK \in BOOLEAN :
          LET e == ensureOutputDir(dirState, mkdirOK) IN
          /\ dirState' = e.dir
          /\ IF e.err
             THEN mpc' = "fatal" /\ fatal' = "Failed to create output directory"
             ELSE mpc' = "writeFile" /\ UNCHANGED fatal
    /\ UNCHANGED <<env, config, fileState, netCalls, mstats>>
    /\ UNCHANGED OutsideMain

\* os.WriteFile: OpenFile with O_WRONLY|O_CREATE|O_TRUNC, Write, Close. The
\* open fails in a path that is no directory and may fail otherwise; once the
\* file is open its old content is gone, and a failing write leaves what had
\* been written by then.
os_WriteFile(dir, file, data) ==
    IF dir # "dir" THEN {[file |-> file, err |-> TRUE]}
    ELSE {[file |-> file, err |-> TRUE]}
             \cup {[file |-> <<part>>, err |-> TRUE] : part \in PartialWrites(data)}
             \cup {[file |-> <<data>>, err |-> FALSE]}

\* Lines 86 and 92-97: the document is rendered from stats and written.
MainWriteFile ==
    /\ mpc = "writeFile"
    /\ \E w \in os_WriteFile(dirState, fileState, generateStatsCardSVG(mstats)) :
          /\ fileState' = w.file
          /\ IF w.err
             THEN mpc' = "fatal" /\ fatal' = "Failed to write SVG"
             ELSE mpc' = "exit" /\ UNCHANGED fatal
    /\ UNCHANGED <<env, config, dirState, netCalls, mstats>>
    /\ UNCHANGED OutsideMain

NextMain == MainLoadConfig \/ MainFetch \/ MainEnsureOutputDir \/ MainWriteFile

SpecMain == InitMain /\ [][NextMain]_vars

(***************************************************************************)
(* sftp_directory_transfer.sh: main, from validate_params to the upload    *)
(***************************************************************************)

\* The directories of the local host.
LocalDirectories == {"/opt/app", "/var/www/html"}

\* The options after the parsing loop of lines 186-206; "" is an option not
\* given.
Parameters ==
    [SOURCE_PATH : {"", "/missing", "/opt/app", "/var/www/html"},
     TARGET_HOST : {"", "192.168.1.20", "server2.com"},
     TARGET_PATH : {"", "/opt/app", "/var/www/html"}]

\* validate_params under set -e: the first failed test logs its error and
\* ((errors++)), whose value 0 is exit status 1, ends the script there. ""
\* when every test passes.
validate_params(p) ==
    IF p.SOURCE_PATH = "" THEN "Source path is required"
    ELSE IF p.SOURCE_PATH \notin LocalDirectories THEN "Source directory does not exist"
    ELSE IF p.TARGET_HOST = "" THEN "Target host is required"
    ELSE IF p.TARGET_PATH = "" THEN "Target path is required"
    ELSE ""

\* The exit status of ssh "test -d path": 0 if the path is a directory, 1 if
\* not, 255 if ssh could not connect or authenticate.
SshTestStatuses(target) ==
    IF target = "dir" THEN {0, 255} ELSE {1, 255}

\* check_remote_directory: 0 when ssh exits 0, else 1.
check_remote_directory(sshStatus) == IF sshStatus = 0 THEN 0 ELSE 1

InitSftp ==
    /\ RetryIdle
    /\ FetchIdle
    /\ RenderIdle
    /\ MainIdle
    /\ NestedIdle
    /\ spc = "main"
    /\ params \in Parameters
    /\ remoteTarget \in {"absent", "dir", "file"}
    /\ remoteBackup = FALSE
    /\ uploadStarted = FALSE
    /\ exitStatus = -1
    /\ slog = <<>>

\* Lines 210-213.
SftpValidate ==
    /\ spc = "main"
    /\ LET e == validate_params(params) IN
       IF e # ""
       THEN /\ spc' = "exit"
            /\ exitStatus' = 1
            /\ slog' = slog \o <<"Starting SFTP Directory Transfer Script", e>>
       ELSE /\ spc' = "check_remote_directory"
            /\ slog' = Append(slog, "Starting SFTP Directory Transfer Script")
            /\ UNCHANGED exitStatus
    /\ UNCHANGED <<params, remoteTarget, remoteBackup, uploadStarted>>
    /\ UNCHANGED OutsideSftp

\* Lines 218-219 and 226-228.
SftpCheckRemote ==
    /\ spc = "check_remote_directory"
    /\ \E sshStatus \in SshTestStatuses(remoteTarget) :
          IF check_remote_directory(sshStatus) = 0
          THEN /\ spc' = "create_backup"
               /\ slog' = Append(slog, "Target directory already exists")
          ELSE /\ spc' = "transfer_directory"
               /\ slog' = Append(slog, "Target directory does not exist, proceeding with transfer")
    /\ UNCHANGED <<params, remoteTarget, remoteBackup, uploadStarted, exitStatus>>
    /\ UNCHANGED OutsideSftp

\* Lines 222-225 with create_backup: ssh "mv path backup_path" succeeds, or
\* fails and leaves the remote host as it was.
SftpCreateBackup ==
    /\ spc = "create_backup"
    /\ \E moved \in BOOLEAN :
          IF moved
          THEN /\ remoteTarget' = "absent"
               /\ remoteBackup' = TRUE
               /\ spc' = "transfer_directory"
               /\ slog' = Append(slog, "Backup created successfully")
               /\ UNCHANGED exitStatus
          ELSE /\ spc' = "exit"
               /\ exitStatus' = 1
               /\ slog' = slog \o <<"Failed to create backup",
                                    "Failed to create backup, aborting transfer">>
               /\ UNCHANGED <<remoteTarget, remoteBackup>>
    /\ UNCHANGED <<params, uploadStarted>>
    /\ UNCHANGED OutsideSftp

\* Lines 231-241 with transfer_directory: sftp is started; it uploads the
\* directory, or fails with nothing or a part of it uploaded.
SftpTransfer ==
    /\ spc = "transfer_directory"
    /\ uploadStarted' = TRUE
    /\ \E uploaded \in BOOLEAN, partly \in BOOLEAN :
          IF uploaded
          THEN /\ remoteTarget' = "dir"
               /\ spc' = "verify_transfer"
               /\ slog' = slog \o <<"Upload completed successfully",
                                    "Directory transfer completed successfully">>
               /\ UNCHANGED exitStatus
          ELSE /\ remoteTarget' = IF partly /\ remoteTarget = "absent" THEN "dir"
                                  ELSE remoteTarget
               /\ spc' = "exit"
               /\ exitStatus' = 1
               /\ slog' = slog \o <<"Failed to upload to target server",
                                    "Directory transfer failed">>
    /\ UNCHANGED <<params, remoteBackup>>
    /\ UNCHANGED OutsideSftp

\* Lines 235-243 with verify_transfer: a failed verification is a warning.
SftpVerify ==
    /\ spc = "verify_transfer"
    /\ \E sshStatus \in SshTestStatuses(remoteTarget) :
          slog' = IF check_remote_directory(sshStatus) = 0
                  THEN slog \o <<"Transfer verification successful",
                                 "Script execution completed">>
                  ELSE slog \o <<"Transfer verification failed",
                                 "Transfer verification failed, but files may still be transferred",
                                 "Script execution completed">>
    /\ spc' = "exit"
    /\ exitStatus' = 0
    /\ UNCHANGED <<params, remoteTarget, remoteBackup, uploadStarted>>
    /\ UNCHANGED OutsideSftp

NextSftp ==
    SftpValidate \/ SftpCheckRemote \/ SftpCreateBackup \/ SftpTransfer \/ SftpVerify

SpecSftp == InitSftp /\ [][NextSftp]_vars

(***************************************************************************)
(* getNestedValue                                                          *)
(***************************************************************************)

\* The values of a map[string]interface{}: a string, or a nested object with
\* its members by name. Names and strings are sequences of characters.
Str(s) == [kind |-> "string", str |-> s]

Obj(m) == [kind |-> "object", members |-> m]

\* The names the members of the objects carry.
Names == {<<"a">>, <<"b">>}

\* The maps from some of the names to the values of vs.
Members(vs) == UNION {[D -> vs] : D \in SUBSET Names}

RECURSIVE ValuesOfDepth(_)
\* The values nested at most d objects deep.
ValuesOfDepth(d) ==
    IF d = 0 THEN {Str(<<"d">>)}
    ELSE {Str(<<"d">>)} \cup {Obj(m) : m \in Members(ValuesOfDepth(d - 1))}

\* object1 and object2 of main.
object1 == Obj(<<"a">> :> Obj(<<"b">> :> Obj(<<"c">> :> Str(<<"d">>))))

object2 == Obj(<<"x">> :> Obj(<<"y">> :> Obj(<<"z">> :> Str(<<"a">>))))

\* key1 and key2 of main.
key1 == <<"a", "/", "b", "/", "c">>

key2 == <<"x", "/", "y", "/", "z">>

\* The objects getNestedValue is called on: those of main, and every object of
\* the names up to MaxDepth.
Objects ==
    {object1, object2} \cup {Obj(m) : m \in Members(ValuesOfDepth(MaxDepth - 1))}

\* The keys it is called with: those of main, and every string of the
\* characters "a", "b" and "/" up to MaxKeyLen, the empty one included.
Keys ==
    {key1, key2} \cup UNION {[1..n -> {"a", "b", "/"}] : n \in 0..MaxKeyLen}

RECURSIVE strings_Split(_)
\* strings.Split(key, "/"): the substrings between the separators, one more
\* than there are separators, empty ones kept.
strings_Split(s) ==
    IF \A i \in 1..Len(s) : s[i] # "/"
    THEN <<s>>
    ELSE LET i == CHOOSE j \in 1..Len(s) :
                      s[j] = "/" /\ \A h \in 1..(j - 1) : s[h] # "/"
         IN  <<SubSeq(s, 1, i - 1)>> \o strings_Split(SubSeq(s, i + 1, Len(s)))

InitNested ==
    /\ RetryIdle
    /\ FetchIdle
    /\ RenderIdle
    /\ MainIdle
    /\ SftpIdle
    /\ npc = "call"
    /\ nvObject \in Objects
    /\ nvKey \in Keys
    /\ obj = Nil
    /\ keys = <<>>
    /\ nvValue = Nil

\* main calls getNestedValue(object, key): the key is split.
NestedCall ==
    /\ npc = "call"
    /\ obj' = nvObject
    /\ keys' = strings_Split(nvKey)
    /\ npc' = "loop"
    /\ UNCHANGED <<nvObject, nvKey, nvValue>>
    /\ UNCHANGED OutsideNested

\* One iteration of the loop over keys: nil for a name obj does not have, a
\* descent into a member that is an object, any other member returned.
NestedIterate ==
    /\ npc = "loop"
    /\ keys # <<>>
    /\ LET k == Head(keys) IN
        IF k \notin DOMAIN obj.members
        THEN /\ nvValue' = Nil
             /\ npc' = "returned"
             /\ UNCHANGED <<obj, keys>>
        ELSE IF obj.members[k].kind = "object"
        THEN /\ obj' = obj.members[k]
             /\ keys' = Tail(keys)
             /\ UNCHANGED <<npc, nvValue>>
        ELSE /\ nvValue' = obj.members[k]
             /\ npc' = "returned"
             /\ UNCHANGED <<obj, keys>>
    /\ UNCHANGED <<nvObject, nvKey>>
    /\ UNCHANGED OutsideNested

\* The loop has visited every component: "return nil".
NestedExhausted ==
    /\ npc = "loop"
    /\ keys = <<>>
    /\ nvValue' = Nil
    /\ npc' = "returned"
    /\ UNCHANGED <<nvObject, nvKey, obj, keys>>
    /\ UNCHANGED OutsideNested

NextNested == NestedCall \/ NestedIterate \/ NestedExhausted

SpecNested == InitNested /\ [][NextNested]_vars

(***************************************************************************)
(* Properties of fetchStatsWithRetry                                       *)
(***************************************************************************)

\* C1: when ctx fires during a backoff wait, the wait is aborted at once and
\* fetchStatsWithRetry returns without waiting further.
C1_CancelAbortsWait ==
    [][(pc = "waiting" /\ ctxDone) => (pc' = "done" /\ now' = now)]_vars

\* C2: once ctx has fired, no attempt of fetchStats follows the ones begun.
C2_NoAttemptAfterCancel ==
    [][(ctxDone /\ attempts >= 1) => attempts' = attempts]_vars

\* C3: an attempt that fails, with whatever error, is followed by a backoff
\* wait of positive length and then by another attempt, unless the budget is
\* exhausted; the kind of the error never ends the loop.
C3_AllErrorsRetried ==
    [][/\ (pc = "inflight" /\ pc' # "inflight" /\ err' # Nil)
            => IF now' + delay' > MaxElapsedTime
               THEN pc' = "done"
               ELSE pc' = "waiting" /\ delay' > 0 /\ timerEnd' = now' + delay'
       /\ (pc = "waiting" /\ pc' # "waiting")
            => pc' = "inflight" /\ attempts' = attempts + 1 /\ now' = timerEnd]_vars

\* A 401 has been answered by a backoff wait, after an earlier retry.
C3_Witness ==
    /\ pc = "waiting"
    /\ attempts >= 2
    /\ err.kind = "unexpected status code"
    /\ err.code = 401

\* C4: when fetchStatsWithRetry gives up, it returns no StatsCard and an error
\* wrapping the error of the most recent attempt.
C4_ExhaustionWrapsLastError ==
    (pc = "done" /\ ret.err # Nil)
        => /\ ret.stats = Nil
           /\ fetchStats(lastExchange).err # Nil
           /\ ret.err = [kind |-> "failed after retries",
                         cause |-> fetchStats(lastExchange).err]

\* The budget ran out after several attempts, the last one a GraphQL failure.
C4_Witness ==
    /\ pc = "done"
    /\ attempts >= 3
    /\ ret.err # Nil
    /\ ret.err.cause.kind = "GraphQL errors"

\* C5 as stated: fetchStatsWithRetry returns within the budget MaxElapsedTime.
C5_ReturnsWithinBudget ==
    pc = "done" => now <= MaxElapsedTime

\* C5, amended: fetchStatsWithRetry returns within the budget plus the timeout
\* of one call; every attempt begins within the budget.
C5_ReturnsWithinBudgetPlusTimeout ==
    /\ now <= MaxElapsedTime + ClientTimeout
    /\ pc = "waiting" => timerEnd <= MaxElapsedTime

\* A return later than the budget.
C5_Witness ==
    pc = "done" /\ now > MaxElapsedTime

\* C6: fetchStatsWithRetry gives up only when the elapsed time plus the next
\* delay is over the budget, however many attempts have failed.
C6_GivesUpOnlyOverBudget ==
    (pc = "done" /\ ret.err # Nil) => now + delay > MaxElapsedTime

\* It gave up after ten attempts or more.
C6_Witness ==
    pc = "done" /\ ret.err # Nil /\ attempts >= 10

\* C7: a successful attempt ends the run: its StatsCard, whole, is what is
\* returned, and no attempt follows.
C7_SuccessEndsRetry ==
    /\ [](fetchStats(lastExchange).err = Nil
            => /\ pc = "done"
               /\ ret = [stats |-> fetchStats(lastExchange).stats, err |-> Nil]
               /\ ret.stats # Nil)
    /\ [][pc = "done" => (attempts' = attempts /\ ret' = ret)]_vars

\* A success after a failed attempt, with the stars of that response.
C7_Witness ==
    /\ pc = "done"
    /\ attempts >= 2
    /\ ret.err = Nil
    /\ ret.stats.TotalStars = 15

(***************************************************************************)
(* Properties of fetchStats                                                *)
(***************************************************************************)

\* The class of a result, of those the taxonomy names; "decode failure" is the
\* error of json.Unmarshal.
ReportedClasses(res) ==
    {c \in {"transport", "http status", "rate limit", "graphql", "decode failure",
            "success"} :
        \/ c = "transport" /\ res.stats = Nil
              /\ res.err.kind \in {"execute request", "read response"}
        \/ c = "http status" /\ res.stats = Nil /\ res.err.kind = "unexpected status code"
        \/ c = "rate limit" /\ res.stats = Nil /\ res.err.kind = "rate limit exceeded"
        \/ c = "graphql" /\ res.stats = Nil /\ res.err.kind = "GraphQL errors"
        \/ c = "decode failure" /\ res.stats = Nil /\ res.err.kind = "unmarshal response"
        \/ c = "success" /\ res.stats # Nil /\ res.err = Nil}

\* The classes whose trigger an exchange meets.
TriggeredClasses(x) ==
    {c \in {"transport", "http status", "rate limit", "graphql", "decode failure",
            "success"} :
        \/ c = "transport" /\ (x.doErr \/ x.readErr)
        \/ /\ ~x.doErr
           /\ ~x.readErr
           /\ \/ c = "http status" /\ x.status # 200
              \/ c = "rate limit" /\ x.remaining # <<>> /\ Head(x.remaining) = "0"
              \/ c = "decode failure" /\ x.status = 200 /\ ~x.body.json
              \/ c = "graphql" /\ x.status = 200 /\ x.body.json /\ x.body.errors # <<>>
              \/ /\ c = "success"
                 /\ x.status = 200
                 /\ ~(x.remaining # <<>> /\ Head(x.remaining) = "0")
                 /\ x.body.json
                 /\ x.body.errors = <<>>}

\* C8 as stated: every outcome is in exactly one of the five classes transport
\* failure, HTTP status, rate limit, GraphQL failure, success.
C8_OneOfFiveClasses ==
    fetched # Nil
        => Cardinality(ReportedClasses(fetched) \ {"decode failure"}) = 1

\* C8, amended: every outcome is in exactly one of six classes, the five and
\* the failure to decode the body, and it is a class whose trigger is met.
C8_OneOfSixClasses ==
    fetched # Nil
        => /\ Cardinality(ReportedClasses(fetched)) = 1
           /\ ReportedClasses(fetched) \subseteq TriggeredClasses(exchange)

\* A 200 response whose body does not decode.
C8_Witness ==
    /\ fetched # Nil
    /\ exchange.status = 200
    /\ fetched.err.kind = "unmarshal response"

\* C9 as stated: a response, its body read, with X-RateLimit-Remaining "0" is
\* reported as the rate-limit error, with the text of X-RateLimit-Reset.
C9_RemainingZeroIsRateLimit ==
    (fetched # Nil /\ ~exchange.doErr /\ ~exchange.readErr
        /\ exchange.remaining # <<>> /\ Head(exchange.remaining) = "0")
        => fetched = [stats |-> Nil,
                      err |-> [kind |-> "rate limit exceeded",
                               resetTime |-> IF exchange.reset = <<>> THEN ""
                                             ELSE Head(exchange.reset)]]

\* C9, amended: so is such a response when its status is 200.
C9_RemainingZeroOn200IsRateLimit ==
    (fetched # Nil /\ ~exchange.doErr /\ ~exchange.readErr /\ exchange.status = 200
        /\ exchange.remaining # <<>> /\ Head(exchange.remaining) = "0")
        => fetched = [stats |-> Nil,
                      err |-> [kind |-> "rate limit exceeded",
                               resetTime |-> IF exchange.reset = <<>> THEN ""
                                             ELSE Head(exchange.reset)]]

\* The rate-limit error with the reset time of the header.
C9_Witness ==
    /\ fetched # Nil
    /\ exchange.reset # <<>>
    /\ Head(exchange.reset) = "1699999999"
    /\ fetched.err = [kind |-> "rate limit exceeded", resetTime |-> "1699999999"]

\* C10 as stated: the HTTP-status error, with code and body, is reported exactly
\* for the responses, their body read, whose status is not 2xx.
C10_StatusErrorIffNot2xx ==
    (fetched # Nil /\ ~exchange.doErr /\ ~exchange.readErr)
        => IF exchange.status \in 200..299
           THEN fetched.err.kind # "unexpected status code"
           ELSE fetched = [stats |-> Nil,
                           err |-> [kind |-> "unexpected status code",
                                    code |-> exchange.status, body |-> exchange.body]]

\* C10, amended: it is reported exactly for those whose status is not 200.
C10_StatusErrorIffNot200 ==
    (fetched # Nil /\ ~exchange.doErr /\ ~exchange.readErr)
        => IF exchange.status = 200
           THEN fetched.err.kind # "unexpected status code"
           ELSE fetched = [stats |-> Nil,
                           err |-> [kind |-> "unexpected status code",
                                    code |-> exchange.status, body |-> exchange.body]]

\* A 204 reported as an HTTP-status error.
C10_Witness ==
    /\ fetched # Nil
    /\ exchange.status = 204
    /\ fetched.err.kind = "unexpected status code"
    /\ fetched.err.code = 204

\* C11: a 200 response with a non-empty top-level error list gives an error
\* and no StatsCard, whatever its data; the retry loop treats that error as any
\* failure: a backoff wait while the budget allows, else the terminal error.
C11_GraphQLErrorRetried ==
    (/\ pc \in {"waiting", "done"}
     /\ ~lastExchange.doErr /\ ~lastExchange.readErr
     /\ lastExchange.status = 200
     /\ lastExchange.body.json
     /\ lastExchange.body.errors # <<>>)
        => /\ stats = Nil
           /\ err # Nil
           /\ IF now + delay > MaxElapsedTime
              THEN pc = "done"
                   /\ ret = [stats |-> Nil,
                             err |-> [kind |-> "failed after retries", cause |-> err]]
              ELSE pc = "waiting" /\ timerEnd = now + delay /\ ret = Nil

\* A GraphQL failure that came with data is waited out for a retry.
C11_Witness ==
    /\ pc = "waiting"
    /\ lastExchange.body.hasUser
    /\ lastExchange.body.errors # <<>>
    /\ err.kind = "GraphQL errors"

\* C12 as stated: a 200 response without the zero-remaining signal and without
\* an error list makes fetchStats return a StatsCard and no error.
C12_CleanResponseSucceeds ==
    (/\ fetched # Nil
     /\ ~exchange.doErr /\ ~exchange.readErr
     /\ exchange.status = 200
     /\ ~(exchange.remaining # <<>> /\ Head(exchange.remaining) = "0")
     /\ exchange.body.errors = <<>>)
        => fetched.err = Nil /\ fetched.stats # Nil

\* C12, amended: so does such a response when its body decodes.
C12_CleanDecodedResponseSucceeds ==
    (/\ fetched # Nil
     /\ ~exchange.doErr /\ ~exchange.readErr
     /\ exchange.status = 200
     /\ ~(exchange.remaining # <<>> /\ Head(exchange.remaining) = "0")
     /\ exchange.body.json
     /\ exchange.body.errors = <<>>)
        => fetched.err = Nil /\ fetched.stats # Nil

\* A success on a response with quota left and no user record.
C12_Witness ==
    /\ fetched # Nil
    /\ exchange.remaining = <<"4999">>
    /\ exchange.body.json
    /\ ~exchange.body.hasUser
    /\ fetched.err = Nil
    /\ fetched.stats # Nil

RECURSIVE C16_Sum(_, _)
\* The sum of the first n elements of a list.
C16_Sum(list, n) == IF n = 0 THEN 0 ELSE C16_Sum(list, n - 1) + list[n]

\* C16: on success TotalStars is the sum of stargazerCount over the nodes of
\* the payload: 0 for no node, 15 for nodes of 10 and 5.
C16_TotalStarsIsSum ==
    (fetched # Nil /\ fetched.err = Nil)
        => LET nodes == IF exchange.body.hasUser THEN exchange.body.user.nodes ELSE <<>>
           IN  /\ fetched.stats.TotalStars = C16_Sum(nodes, Len(nodes))
               /\ nodes = <<>> => fetched.stats.TotalStars = 0
               /\ nodes = <<10, 5>> => fetched.stats.TotalStars = 15

\* The success on the nodes 10 and 5.
C16_Witness ==
    /\ fetched # Nil
    /\ fetched.err = Nil
    /\ exchange.body.user.nodes = <<10, 5>>
    /\ fetched.stats.TotalStars = 15

\* C17: on success each counter of the StatsCard is the copy of its own field
\* of the payload.
C17_CountersCopied ==
    (fetched # Nil /\ fetched.err = Nil /\ exchange.body.hasUser)
        => /\ fetched.stats.TotalCommits = exchange.body.user.commits
           /\ fetched.stats.TotalPRs = exchange.body.user.prs
           /\ fetched.stats.TotalIssues = exchange.body.user.issues
           /\ fetched.stats.TotalContributions = exchange.body.user.calendar
           /\ fetched.stats.ContributedTo = exchange.body.user.contributedTo

\* The success on the counters of TestFetchStats, all different.
C17_Witness ==
    /\ fetched # Nil
    /\ fetched.err = Nil
    /\ exchange.body.user.commits = 100
    /\ fetched.stats.TotalCommits = 100
    /\ fetched.stats.TotalPRs = 30
    /\ fetched.stats.TotalIssues = 20
    /\ fetched.stats.TotalContributions = 200
    /\ fetched.stats.ContributedTo = 15

C18_Fields ==
    << [label |-> "Total Stars:", x |-> "135", field |-> "TotalStars"],
       [label |-> "Total Commits (2025):", x |-> "205", field |-> "TotalCommits"],
       [label |-> "Total PRs:", x |-> "110", field |-> "TotalPRs"],
       [label |-> "Total Issues:", x |-> "125", field |-> "TotalIssues"],
       [label |-> "Contributed to:", x |-> "150", field |-> "ContributedTo"],
       [label |-> "Contributions (2025):", x |-> "185", field |-> "TotalContributions"] >>

C18_IsDigit(c) == \E d \in 1..10 : DigitChars[d] = c

C18_DigitValue(c) == (CHOOSE d \in 1..10 : DigitChars[d] = c) - 1

\* Reading a run of characters as a decimal numeral; -1 when it is none.
RECURSIVE C18_Read(_, _)
C18_Read(chunks, n) ==
    IF n = 0 THEN 0 ELSE 10 * C18_Read(chunks, n - 1) + C18_DigitValue(chunks[n])

C18_Decimal(chunks) ==
    IF /\ Len(chunks) >= 1
       /\ \A i \in 1..Len(chunks) : C18_IsDigit(chunks[i])
       /\ (Len(chunks) > 1 => chunks[1] # "0")
    THEN C18_Read(chunks, Len(chunks))
    ELSE -1

C18_NonNegative(s) ==
    /\ s.TotalStars >= 0 /\ s.TotalCommits >= 0 /\ s.TotalPRs >= 0
    /\ s.TotalIssues >= 0 /\ s.ContributedTo >= 0 /\ s.TotalContributions >= 0

\* C18: for every StatsCard of non-negative integers, the document holds each
\* label once, and the text element right after it, at the field's own x
\* position, holds the decimal numeral of that same field.
C18_ValuesAtOwnPositions ==
    (svg # <<>> /\ C18_NonNegative(card)) =>
        \A j \in 1..Len(C18_Fields) :
            LET F == C18_Fields[j]
                at == {i \in 1..Len(svg) : svg[i].k = "chars" /\ svg[i].chunks = <<F.label>>}
            IN /\ Cardinality(at) = 1
               /\ \A i \in at :
                     /\ i + 5 <= Len(svg)
                     /\ svg[i + 1] = ETag("text")
                     /\ svg[i + 2] = Space
                     /\ svg[i + 3] = STag("text", <<Attr("class", <<"stat">>),
                                                   Attr("x", <<F.x>>),
                                                   Attr("y", <<"12.5">>),
                                                   Attr("font-weight", <<"bold">>)>>)
                     /\ svg[i + 4].k = "chars"
                     /\ C18_Decimal(svg[i + 4].chunks) = card[F.field]
                     /\ svg[i + 5] = ETag("text")

\* The all-zero card, and a card whose six fields are not all alike, rendered.
C18_Witness ==
    /\ svg # <<>>
    /\ \/ \A j \in 1..Len(C18_Fields) : card[C18_Fields[j].field] = 0
       \/ card.TotalStars = 42 /\ card.TotalCommits = 1337 /\ card.TotalPRs = 0

\* How many elements are open after the first n pieces of the document.
C19_Depth(doc) ==
    [n \in 0..Len(doc) |->
        Cardinality({i \in 1..n : doc[i].k = "stag"})
            - Cardinality({i \in 1..n : doc[i].k = "etag"})]

\* Every closing tag closes the innermost open element, which bears its name,
\* and nothing is left open at the end.
C19_ClosedInOrder(doc) ==
    LET depth == C19_Depth(doc) IN
    /\ depth[Len(doc)] = 0
    /\ \A j \in 1..Len(doc) :
          doc[j].k = "etag" =>
              /\ depth[j] >= 0
              /\ LET opened == {i \in 1..(j - 1) :
                                   doc[i].k = "stag" /\ depth[i] = depth[j - 1]}
                 IN /\ opened # {}
                    /\ doc[CHOOSE i \in opened : \A h \in opened : h <= i].name
                           = doc[j].name

C19_AttributesOnce(doc) ==
    \A i \in 1..Len(doc) :
        \A a, b \in 1..Len(doc[i].attrs) :
            a # b => doc[i].attrs[a].name # doc[i].attrs[b].name

C19_SpecialChars == {"<", ">", "&", "\"", "'"}

\* What stands in the six value elements is free of markup characters.
C19_ValuesClean(doc) ==
    \A i \in 2..Len(doc) :
        (doc[i].k = "chars" /\ doc[i - 1].k = "stag"
         /\ \E a \in 1..Len(doc[i - 1].attrs) : doc[i - 1].attrs[a].name = "font-weight")
            => \A c \in 1..Len(doc[i].chunks) : doc[i].chunks[c] \notin C19_SpecialChars

\* C19: the document generateStatsCardSVG returns is well-formed: elements
\* are closed in nesting order, no tag carries an attribute name twice, and
\* the inserted values bring in no markup character.
C19_WellFormed ==
    svg # <<>> => /\ C19_ClosedInOrder(svg)
                  /\ C19_AttributesOnce(svg)
                  /\ C19_ValuesClean(svg)

\* strings.TrimSpace on the document: the index of its last piece that is not
\* white space.
C20_LastNonSpace(doc) ==
    CHOOSE i \in 0..Len(doc) :
        /\ i > 0 => doc[i].k # "space"
        /\ \A j \in (i + 1)..Len(doc) : doc[j].k = "space"

\* C20: the document begins with an opening svg tag and, trailing white space
\* trimmed, ends with the closing svg tag.
C20_SvgFirstAndLast ==
    svg # <<>> =>
        /\ svg[1].k = "stag" /\ svg[1].name = "svg"
        /\ C20_LastNonSpace(svg) > 1
        /\ svg[C20_LastNonSpace(svg)] = ETag("svg")

\* A card with a negative field and large ones, rendered.
C20_Witness ==
    svg # <<>> /\ card.TotalStars = -1 /\ card.TotalContributions = 1337

(***************************************************************************)
(* Properties of main                                                      *)
(***************************************************************************)

\* C14: a run without username or without token is rejected by loadConfig
\* with a configuration error before any fetch, and no fetch is made with an
\* empty username or token.
C14_MissingConfigRejected ==
    /\ (mpc # "loadConfig" /\ (env.GITHUB_USERNAME = "" \/ env.GITHUB_TOKEN = ""))
           => /\ mpc = "fatal"
              /\ fatal = "GITHUB_TOKEN environment variable is required"
              /\ netCalls = 0
    /\ netCalls > 0 => config.Username # "" /\ config.Token # ""

\* C14, as the code has it: a run without token is rejected before any fetch;
\* a run without username goes on with the default username; no fetch is made
\* with an empty username or token.
C14_MissingTokenRejected ==
    /\ (mpc # "loadConfig" /\ env.GITHUB_TOKEN = "")
           => /\ mpc = "fatal"
              /\ fatal = "GITHUB_TOKEN environment variable is required"
              /\ netCalls = 0
    /\ (mpc # "loadConfig" /\ env.GITHUB_USERNAME = "")
           => config.Username = "gangwgr"
    /\ (mpc # "loadConfig" /\ env.GITHUB_USERNAME # "")
           => config.Username = env.GITHUB_USERNAME
    /\ netCalls > 0 => config.Username # "" /\ config.Token # ""

\* A run without username that has fetched under the default username.
C14_Witness ==
    /\ env.GITHUB_USERNAME = "" /\ env.GITHUB_TOKEN # ""
    /\ netCalls > 0 /\ mpc = "ensureOutputDir"
    /\ config.Username = "gangwgr"

\* C15: a run either writes the complete document of the fetched StatsCard or
\* changes nothing on disk it should not: a failed fetch creates no directory,
\* and no failing step leaves the output file partial or other than it was.
C15_AllOrNothing ==
    [][/\ (mpc # "exit" /\ mpc' = "exit")
              => fileState' = <<generateStatsCardSVG(mstats)>>
       /\ (mpc = "fetch" /\ mpc' = "fatal") => dirState' = dirState
       /\ (mpc # "fatal" /\ mpc' = "fatal") => fileState' = fileState]_vars

\* C21: loadConfig takes username, output directory and output file from
\* their variables when these are non-empty and verbose from VERBOSE when it
\* parses as a boolean; otherwise the setting is its default.
C21_SettingsFromEnvOrDefault ==
    mpc # "loadConfig" =>
        /\ config.Username =
               IF env.GITHUB_USERNAME = "" THEN "gangwgr" ELSE env.GITHUB_USERNAME
        /\ config.OutputDir = IF env.OUTPUT_DIR = "" THEN "output" ELSE env.OUTPUT_DIR
        /\ config.OutputFile =
               IF env.OUTPUT_FILE = "" THEN "stats-card.svg" ELSE env.OUTPUT_FILE
        /\ config.Verbose = (env.VERBOSE \in {"true", "1"})
        /\ env.VERBOSE \in {"", "invalid", "false"} => config.Verbose = FALSE

\* loadConfig has run on an unparsable VERBOSE, an empty OUTPUT_DIR and a set
\* OUTPUT_FILE.
C21_Witness ==
    /\ mpc = "fetch"
    /\ env.VERBOSE = "invalid" /\ env.OUTPUT_DIR = "" /\ env.OUTPUT_FILE = "card.svg"
    /\ config.OutputDir = "output" /\ config.OutputFile = "card.svg"

\* C22: ensureOutputDir creates a missing directory; whenever it returns no
\* error the directory exists afterwards; and a second call then returns no
\* error and leaves the directory in place.
C22_EnsuredDirExists ==
    [][(mpc = "ensureOutputDir" /\ mpc' = "writeFile")
           => /\ dirState' = "dir"
              /\ \A mkdirOK \in BOOLEAN :
                    ensureOutputDir(dirState', mkdirOK) = [dir |-> "dir", err |-> FALSE]]_vars

(***************************************************************************)
(* Further properties of fetchStatsWithRetry and fetchStats                *)
(***************************************************************************)

\* C23: every attempt ends within the client's 30-second timeout, which is
\* shorter than the retry budget, and fetchStatsWithRetry eventually returns.
C23_AttemptsEndAndRetryReturns ==
    /\ [][(pc = "inflight" /\ pc' # "inflight")
              => now' - now <= ClientTimeout /\ ClientTimeout < MaxElapsedTime]_vars
    /\ <>(pc = "done")

\* A run that has returned after attempts the server never answered.
C23_Witness ==
    /\ pc = "done" /\ attempts >= 2
    /\ lastExchange = NoResponse
    /\ now >= 2 * ClientTimeout

\* C24: at most one attempt is in flight at any time, and an attempt starts
\* only when every earlier attempt has returned and, after the first, when
\* the backoff wait that followed the last one has run to its end.
C24_OneAttemptInFlight ==
    [][/\ attempts' - requests' \in {0, 1}
       /\ attempts' > attempts
              => /\ attempts' = attempts + 1
                 /\ requests = attempts
                 /\ attempts > 0 => /\ pc = "waiting"
                                    /\ delay >= 0
                                    /\ now' = now + delay]_vars

\* A third attempt in flight, the two before it over.
C24_Witness ==
    pc = "inflight" /\ attempts = 3 /\ requests = 2 /\ now > 0

\* C25: the wait after a failed attempt is a random value within the jitter
\* range around the nominal interval; the nominal interval starts at the
\* initial interval and is multiplied by 1.5 after each failed attempt.
C25_IntervalMultiplied ==
    [][(pc = "inflight" /\ pc' = "waiting")
           => /\ attempts = 1 => currentInterval = TicksPerSecond \div 2
              /\ delay' >= currentInterval - currentInterval \div 2
              /\ delay' <= currentInterval + currentInterval \div 2
              /\ timerEnd' = now' + delay'
              /\ currentInterval' = (3 * currentInterval) \div 2]_vars

\* C25, with the library's ceiling: the nominal interval is multiplied by 1.5
\* after each failed attempt until that would reach 60 seconds, and is 60
\* seconds from then on.
C25_IntervalMultipliedUpToMax ==
    [][(pc = "inflight" /\ pc' = "waiting")
           => /\ attempts = 1 => currentInterval = TicksPerSecond \div 2
              /\ delay' >= currentInterval - currentInterval \div 2
              /\ delay' <= currentInterval + currentInterval \div 2
              /\ timerEnd' = now' + delay'
              /\ currentInterval' =
                     IF (3 * currentInterval) \div 2 >= 60 * TicksPerSecond
                     THEN 60 * TicksPerSecond
                     ELSE (3 * currentInterval) \div 2]_vars

\* A wait begun with the nominal interval at its ceiling.
C25_Witness ==
    pc = "waiting" /\ currentInterval = MaxInterval /\ delay > 0

(***************************************************************************)
(* Properties of sftp_directory_transfer.sh                                *)
(***************************************************************************)

\* C26: the upload starts only when the target directory is out of the way
\* (moved to its backup, or never there), and a failed backup ends the script
\* with a non-zero status and no upload.
C26_BackupBeforeUpload ==
    [][/\ (~uploadStarted /\ uploadStarted') => remoteTarget # "dir"
       /\ (spc = "create_backup" /\ ~remoteBackup')
              => /\ spc' = "exit"
                 /\ exitStatus' # 0
                 /\ ~uploadStarted']_vars

(***************************************************************************)
(* Further properties of fetchStats                                        *)
(***************************************************************************)

C27_RemainingZero(x) == x.remaining # <<>> /\ Head(x.remaining) = "0"

\* C27: on a response whose body has been read the checks come in the order
\* status, rate-limit header, decoding, GraphQL errors: a status other than
\* 200 wins over X-RateLimit-Remaining "0", which on a 200 response wins over
\* whatever the body holds; an undecodable body is reported as such, and a
\* decoded one with errors as GraphQL errors.
C27_ChecksInOrder ==
    (fetched # Nil /\ ~exchange.doErr /\ ~exchange.readErr)
        => /\ fetched.stats = Nil => fetched.err.kind =
                 IF exchange.status # 200 THEN "unexpected status code"
                 ELSE IF C27_RemainingZero(exchange) THEN "rate limit exceeded"
                 ELSE IF ~exchange.body.json THEN "unmarshal response"
                 ELSE "GraphQL errors"
           /\ (exchange.status # 200 \/ C27_RemainingZero(exchange)) => fetched.stats = Nil

\* A 200 response with X-RateLimit-Remaining "0" and a body of GraphQL errors,
\* reported as rate-limited.
C27_Witness ==
    /\ fetched # Nil
    /\ exchange.status = 200
    /\ C27_RemainingZero(exchange)
    /\ exchange.body.json /\ exchange.body.errors # <<>>
    /\ fetched.err.kind = "rate limit exceeded"

\* C28: every finished attempt leaves exactly one of a StatsCard and an error,
\* fetchStatsWithRetry returns exactly one of the two, and a StatsCard once
\* assigned is what the run returns, with no error and no later attempt.
C28_CardXorError ==
    /\ requests > 0 => (stats = Nil) # (err = Nil)
    /\ pc = "done" => /\ (ret.stats = Nil) # (ret.err = Nil)
                      /\ ret.err # Nil => stats = Nil /\ err # Nil
    /\ stats # Nil => /\ pc = "done"
                      /\ ret = [stats |-> stats, err |-> Nil]
                      /\ requests = attempts

\* A run that failed once or more and then returned a StatsCard, and nothing
\* else.
C28_Witness ==
    /\ pc = "done" /\ attempts >= 2
    /\ ret.stats # Nil /\ ret.err = Nil

\* C29: when the most recent attempt got a 200 response without the rate-limit
\* signal whose JSON body has no errors and a null or missing data/user record,
\* the attempt produced a StatsCard of six zeros and no error, no further
\* attempt follows, and fetchStatsWithRetry returns that card.
C29_NullDataIsZeroCard ==
    (/\ requests > 0
     /\ ~lastExchange.doErr /\ ~lastExchange.readErr
     /\ lastExchange.status = 200
     /\ Header_Get(lastExchange.remaining) # "0"
     /\ lastExchange.body.json
     /\ lastExchange.body.errors = <<>>
     /\ ~lastExchange.body.hasUser)
    => /\ stats = [TotalStars |-> 0, TotalCommits |-> 0, TotalPRs |-> 0,
                   TotalIssues |-> 0, ContributedTo |-> 0,
                   TotalContributions |-> 0]
       /\ err = Nil
       /\ pc = "done"
       /\ requests = attempts
       /\ ret = [stats |-> stats, err |-> Nil]

\* A run whose second attempt or a later one got such a response.
C29_Witness ==
    /\ pc = "done" /\ attempts >= 2
    /\ ~lastExchange.doErr /\ ~lastExchange.readErr
    /\ lastExchange.status = 200
    /\ lastExchange.remaining = <<>>
    /\ lastExchange.body.json /\ ~lastExchange.body.hasUser
    /\ lastExchange.body.errors = <<>>
    /\ ret.stats.TotalStars = 0 /\ ret.err = Nil

RECURSIVE C30_Follow(_, _)
\* The value reached from v by following the components ks in order: nil when
\* a component is missing or the path continues below a value that is not an
\* object.
C30_Follow(v, ks) ==
    IF ks = <<>> THEN v
    ELSE IF v.kind # "object" THEN Nil
    ELSE IF Head(ks) \notin DOMAIN v.members THEN Nil
    ELSE C30_Follow(v.members[Head(ks)], Tail(ks))

\* C30: getNestedValue returns the value found by following all components of
\* the key in order, and nil when some component cannot be followed, because
\* it is missing or because the path continues below a value that is not an
\* object.
C30_FollowsAllComponents ==
    npc = "returned" => nvValue = C30_Follow(nvObject, strings_Split(nvKey))

====
